---- MODULE Spec2Model ----
(***************************************************************************)
(* Model of sentinel (bin/sentinel.py): the run-lock and life cycle of an  *)
(* invocation of entrypoint(), the watchdog consensus resolver             *)
(* watchdog_check(), the proposal pruner prune_expired_proposals() and the *)
(* superblock resolver attempt_superblock_creation().                      *)
(*                                                                         *)
(* Five specifications share the module's variables:                       *)
(*   Spec    concurrent invocations of entrypoint() over the Transient     *)
(*           key/value store (run-lock, signal handler, exit hooks);       *)
(*   SpecWD  watchdog_check() over a store of Watchdog records;            *)
(*   SpecSB  attempt_superblock_creation() over a store of Superblock      *)
(*           records and this voter's votes, cycle after cycle;            *)
(*   SpecPR  prune_expired_proposals() over a store of Proposal records;   *)
(*   SpecPass  the decisions of one pass, of watchdog_check() or of        *)
(*           attempt_superblock_creation(), over either store.             *)
(***************************************************************************)
EXTENDS Integers, Sequences, FiniteSets, TLC

VARIABLES
    now,          \* wall clock, seconds (misc.now() / time.time())
    transient,    \* Transient store: key -> [value, expires_at]
    pc,           \* per invocation: position in entrypoint()/main()
    how,          \* per invocation: how it left entrypoint()
    voted,        \* per invocation: a vote or a submission was performed
    acquired,     \* per invocation: it has set the lock entry
    bypass,       \* per invocation: options.bypass (--bypass-scheduler)
    gate,         \* per invocation: the check of main() that stopped it
    status,       \* per invocation: the exit status of the process
    watchdogs,    \* Governance Store: the Watchdog records
    superblocks,  \* Governance Store: the Superblock records
    votes,        \* this voter's persisted votes: <<object_hash, signal, outcome>>
    decisions,    \* the vote() calls of the current pass
    submitted,    \* the submit() calls of the current pass, in order
    wdpc,         \* position in watchdog_check()
    active_wd,    \* watchdog_check(): its local active_wd
    height,       \* the daemon's next_superblock_height()
    run,          \* attempt_superblock_creation(): what the current pass read
    proposals,    \* Governance Store: the Proposal records
    cyclelen      \* prune_expired_proposals(): what superblockcycle() returned

lockvars == <<transient, pc, how, voted, acquired, bypass, gate, status>>
wdvars == <<watchdogs, wdpc, active_wd>>
sbvars == <<superblocks, height, run>>
prvars == <<proposals, cyclelen>>
passvars == <<votes, decisions, submitted>>
vars == <<now, lockvars, wdvars, sbvars, prvars, passvars>>

(***************************************************************************)
(* Bounds of the model.                                                    *)
(***************************************************************************)
NumProcs == 2        \* invocations of entrypoint() alive at one time
MaxTicks == 4        \* clock ticks the model lets pass
TickSeconds == 30    \* seconds per clock tick
MaxWatchdogs == 3    \* Watchdog records the store comes to hold

Procs == 1..NumProcs
StartTime == TickSeconds
EndTime == StartTime + MaxTicks * TickSeconds

MaxSuperblocks == 3  \* Superblock records the store comes to hold
MaxCycles == 1       \* superblock cycles that go by
FirstHeight == 100   \* next_superblock_height() at the start
MaxProposals == 3    \* Proposal records the store comes to hold

(***************************************************************************)
(* Program constants.                                                      *)
(***************************************************************************)
timeout_seconds == 90

sucr_conf == "sucr.conf"
mutex_key == "SENTINEL_RUNNING_" \o sucr_conf
signal_key == "SENTINEL_RUNNING"

(***************************************************************************)
(* Transient: TTL-keyed key/value store (lib/models.py is not part of the  *)
(* sources; modelled from the Lock entry of the data model and the         *)
(* Run-Lock contract).                                                     *)
(***************************************************************************)
Absent == <<>>                            \* no value (Python: falsy)

is_expired(e) == now >= e.expires_at

\* Transient.get(name): the value, or nothing when absent or expired
TransientGet(t, k) ==
    IF k \notin DOMAIN t \/ is_expired(t[k]) THEN Absent ELSE <<t[k].value>>

\* Transient.set(name, value, timeout)
TransientSet(t, k, v, ttl) ==
    [x \in DOMAIN t \cup {k} |->
        IF x = k THEN [value |-> v, expires_at |-> now + ttl] ELSE t[x]]

\* Transient.delete(name)
TransientDelete(t, k) == [x \in DOMAIN t \ {k} |-> t[x]]

\* Python truthiness of what Transient.get returned
Truthy(r) == r # Absent /\ r[1] # 0

(***************************************************************************)
(* Governance objects and votes (lib/models.py is not part of the sources; *)
(* modelled from the data model and the Store contract).                   *)
(***************************************************************************)
\* object_hash values: hex strings, as sequences of character codes
\* ("11", "1b", "aa", "bb")
ObjectHashes == {<<49, 49>>, <<49, 98>>, <<97, 97>>, <<98, 98>>}

\* the number a hex string denotes
HexDigit(c) == IF c >= 97 THEN c - 87 ELSE c - 48
HashValue(h) == HexDigit(h[1]) * 16 + HexDigit(h[2])

\* Python's < on str: lexicographic on code points, a proper prefix first
StrLess(a, b) ==
    \E i \in 1..(Len(a) + 1) :
        /\ \A j \in 1..(i - 1) : j <= Len(b) /\ a[j] = b[j]
        /\ \/ i = Len(a) + 1 /\ Len(b) >= i
           \/ i <= Len(a) /\ i <= Len(b) /\ a[i] < b[i]

\* attempt_superblock_creation(): no pass made since the store, the chain
\* or the daemon last changed
NoRun == [reached |-> "none", is_masternode |-> FALSE, maturity |-> FALSE,
          cand |-> "none", winner |-> FALSE]

Signals == {"funding", "valid", "delete"}
Outcomes == {"yes", "no", "abstain"}

Decision(h, sig, out) == <<h, sig, out>>

\* obj.voted_on(signal=sig): has this voter a vote of that signal on it
voted_on(vs, h, sig) == \E v \in vs : v[1] = h /\ v[2] = sig

\* obj.vote(sucrd, sig, out): one active vote per (object, signal), a new
\* one supersedes the previous one
vote(vs, h, sig, out) ==
    {v \in vs : ~(v[1] = h /\ v[2] = sig)} \cup {Decision(h, sig, out)}

\* the votes after the vote() calls ds, no two of them on one (object, signal)
ApplyVotes(vs, ds) ==
    {v \in vs : ~\E d \in ds : d[1] = v[1] /\ d[2] = v[2]} \cup ds

(***************************************************************************)
(* Scheduler: the next-window marker (scheduler.py is not part of the      *)
(* sources; modelled from the Scheduler contract: the marker is persisted  *)
(* in the Transient store, is_run_time() is true when there is no marker   *)
(* or the time it names has come).                                         *)
(***************************************************************************)
scheduler_key == "NEXT_SENTINEL_CHECK_AT"

\* the random intervals schedule_next_run() can draw
RunIntervals == {2 * TickSeconds}

\* Scheduler.is_run_time()
is_run_time(t) ==
    LET r == TransientGet(t, scheduler_key)
    IN r = Absent \/ now >= r[1]

\* Scheduler.clear_schedule()
clear_schedule(t) == TransientDelete(t, scheduler_key)

\* Scheduler.schedule_next_run(), given the interval it draws
schedule_next_run(t, interval) ==
    TransientSet(t, scheduler_key, now + interval, interval)

(***************************************************************************)
(* Spec: invocations of entrypoint().                                      *)
(*                                                                         *)
(* pc[p]:  idle -> get -> set -> preflight -> bypass -> sched -> clear     *)
(*         -> sync -> watchdog -> prune -> superblock -> resched           *)
(*         -> release -> atexit -> done                                    *)
(* how[p]: none (still inside), completed, skipped (main() returned        *)
(*         early), abort (lock found), sigint, error (uncaught exception), *)
(*         killed (process killed outright: no handler, no exit hook).     *)
(* gate[p]: the check of main() that was answered in the negative:         *)
(*         unreachable, not_synced, not_masternode, not_run_time.          *)
(* status[p]: the exit status of the process, -1 while none is set.        *)
(***************************************************************************)
MainPcs == {"preflight", "bypass", "sched", "clear", "sync", "watchdog",
            "prune", "superblock", "resched"}
SignalPcs == {"get", "set", "release", "atexit"} \cup MainPcs
LivePcs == SignalPcs
PreflightGates == {"unreachable", "not_synced", "not_masternode"}
SkipGates == PreflightGates \cup {"not_run_time"}

LockInit ==
    /\ transient = <<>>
    /\ pc = [p \in Procs |-> "idle"]
    /\ how = [p \in Procs |-> "none"]
    /\ voted = [p \in Procs |-> FALSE]
    /\ acquired = [p \in Procs |-> FALSE]
    /\ bypass = [p \in Procs |-> FALSE]
    /\ gate = [p \in Procs |-> "none"]
    /\ status = [p \in Procs |-> -1]

\* an empty Governance Store, no vote cast, no pass made
StoreInit ==
    /\ watchdogs = {}
    /\ superblocks = {}
    /\ votes = {}
    /\ decisions = {}
    /\ submitted = <<>>
    /\ wdpc = "idle"
    /\ active_wd = {}
    /\ height = FirstHeight
    /\ run = NoRun
    /\ proposals = {}
    /\ cyclelen = 0

Init ==
    /\ now = StartTime
    /\ LockInit
    /\ StoreInit

\* the external trigger starts an invocation (a first one, or the next one
\* once the process of the last has gone): entrypoint() registers the exit
\* hook and the SIGINT handler, then reaches Transient.get
entrypoint_start(p) ==
    /\ pc[p] \in {"idle", "done"}
    /\ \A q \in Procs : q < p => pc[q] # "idle"
    /\ pc' = [pc EXCEPT ![p] = "get"]
    /\ how' = [how EXCEPT ![p] = "none"]
    /\ voted' = [voted EXCEPT ![p] = FALSE]
    /\ acquired' = [acquired EXCEPT ![p] = FALSE]
    /\ bypass' = [bypass EXCEPT ![p] = FALSE]
    /\ gate' = [gate EXCEPT ![p] = "none"]
    /\ status' = [status EXCEPT ![p] = -1]
    /\ UNCHANGED <<now, transient>>
    /\ UNCHANGED <<wdvars, sbvars, prvars, passvars>>

\* the gate without its test: every invocation goes on to take the lock
entrypoint_get_NoTest(p) ==
    /\ pc[p] = "get"
    /\ pc' = [pc EXCEPT ![p] = "set"]
    /\ UNCHANGED <<now, transient, how, voted, acquired, bypass, gate, status>>
    /\ UNCHANGED <<wdvars, sbvars, prvars, passvars>>

\* is_running = Transient.get(mutex_key); if is_running: sys.exit(1)
entrypoint_get(p) ==
    /\ pc[p] = "get"
    /\ IF Truthy(TransientGet(transient, mutex_key))
       THEN /\ pc' = [pc EXCEPT ![p] = "atexit"]
            /\ how' = [how EXCEPT ![p] = "abort"]
            /\ status' = [status EXCEPT ![p] = 1]
       ELSE /\ pc' = [pc EXCEPT ![p] = "set"]
            /\ UNCHANGED <<how, status>>
    /\ UNCHANGED <<now, transient, voted, acquired, bypass, gate>>
    /\ UNCHANGED <<wdvars, sbvars, prvars, passvars>>

\* else: Transient.set(mutex_key, misc.now(), timeout_seconds)
entrypoint_set(p) ==
    /\ pc[p] = "set"
    /\ transient' = TransientSet(transient, mutex_key, now, timeout_seconds)
    /\ pc' = [pc EXCEPT ![p] = "preflight"]
    /\ acquired' = [acquired EXCEPT ![p] = TRUE]
    /\ UNCHANGED <<now, how, voted, bypass, gate, status>>
    /\ UNCHANGED <<wdvars, sbvars, prvars, passvars>>

\* main() returns: back in entrypoint() at Transient.delete(mutex_key)
Return(p, h) ==
    /\ pc' = [pc EXCEPT ![p] = "release"]
    /\ how' = [how EXCEPT ![p] = h]
    /\ UNCHANGED status

\* the exception is noted, and the statement that raised it is run again
Raise_Retry(p) ==
    /\ pc' = pc
    /\ how' = [how EXCEPT ![p] = "error"]
    /\ UNCHANGED status

\* an exception nobody catches leaves main() and entrypoint(); the
\* interpreter prints it and exits with status 1 through the exit hooks
Raise(p) ==
    /\ pc' = [pc EXCEPT ![p] = "atexit"]
    /\ how' = [how EXCEPT ![p] = "error"]
    /\ status' = [status EXCEPT ![p] = 1]

Goto(p, l) ==
    /\ pc' = [pc EXCEPT ![p] = l]
    /\ UNCHANGED <<how, status>>

\* the process is gone: of the invocation there remain how it ended, what
\* it did and its exit status
Gone(p) ==
    /\ pc' = [pc EXCEPT ![p] = "done"]
    /\ acquired' = [acquired EXCEPT ![p] = FALSE]
    /\ bypass' = [bypass EXCEPT ![p] = FALSE]
    /\ gate' = [gate EXCEPT ![p] = "none"]

\* what the checks at the head of main() find; "raise": a daemon call
\* fails with an exception that is_sucrd_port_open() does not catch
PreflightAnswers == {"ok", "raise"} \cup PreflightGates

\* termcolor.colored(text, color): colored('yellow', "Invalid ...") names
\* the message as the colour; COLORS[color] raises KeyError unless
\* colouring is switched off, and then the text 'yellow' is returned
colored_raises == BOOLEAN

\* main(): options = process_args(), with or without --bypass-scheduler;
\* then the daemon connectivity, sync and masternode checks
main_preflight(p) ==
    /\ pc[p] = "preflight"
    /\ \E r \in PreflightAnswers :
          CASE r = "ok" ->
                  /\ Goto(p, "bypass")
                  /\ \E b \in BOOLEAN : bypass' = [bypass EXCEPT ![p] = b]
                  /\ UNCHANGED gate
            [] r = "raise" -> Raise(p) /\ UNCHANGED <<gate, bypass>>
            [] r \in {"unreachable", "not_synced"} ->
                  /\ Return(p, "skipped")
                  /\ gate' = [gate EXCEPT ![p] = r]
                  /\ UNCHANGED bypass
            [] r = "not_masternode" ->
                  /\ gate' = [gate EXCEPT ![p] = r]
                  /\ \E raises \in colored_raises :
                        IF raises THEN Raise(p) ELSE Return(p, "skipped")
                  /\ UNCHANGED bypass
    /\ UNCHANGED <<now, transient, voted, acquired>>
    /\ UNCHANGED <<wdvars, sbvars, prvars, passvars>>

\* if options.bypass: Scheduler.clear_schedule()
main_bypass(p) ==
    /\ pc[p] = "bypass"
    /\ transient' = IF bypass[p] THEN clear_schedule(transient) ELSE transient
    /\ Goto(p, "sched")
    /\ UNCHANGED <<now, voted, acquired, bypass, gate>>
    /\ UNCHANGED <<wdvars, sbvars, prvars, passvars>>

\* if not Scheduler.is_run_time(): return
main_sched(p) ==
    /\ pc[p] = "sched"
    /\ IF is_run_time(transient)
       THEN Goto(p, "clear") /\ UNCHANGED gate
       ELSE /\ Return(p, "skipped")
            /\ gate' = [gate EXCEPT ![p] = "not_run_time"]
    /\ UNCHANGED <<now, transient, voted, acquired, bypass>>
    /\ UNCHANGED <<wdvars, sbvars, prvars, passvars>>

\* the marker is left in place
main_clear_Skip(p) ==
    /\ pc[p] = "clear"
    /\ Goto(p, "sync")
    /\ UNCHANGED <<now, transient, voted, acquired, bypass, gate>>
    /\ UNCHANGED <<wdvars, sbvars, prvars, passvars>>

\* if not options.bypass: Scheduler.delay() (time passes while pc[p] is
\* "clear"); then Scheduler.clear_schedule()
main_clear(p) ==
    /\ pc[p] = "clear"
    /\ transient' = clear_schedule(transient)
    /\ Goto(p, "sync")
    /\ UNCHANGED <<now, voted, acquired, bypass, gate>>
    /\ UNCHANGED <<wdvars, sbvars, prvars, passvars>>

\* perform_sucrd_object_sync(sucrd)
main_sync(p) ==
    /\ pc[p] = "sync"
    /\ \E ok \in BOOLEAN : IF ok THEN Goto(p, "watchdog") ELSE Raise(p)
    /\ UNCHANGED <<now, transient, voted, acquired, bypass, gate>>
    /\ UNCHANGED <<wdvars, sbvars, prvars, passvars>>

\* sentinel_ping(sucrd) when the daemon has it, else watchdog_check(sucrd),
\* which always votes or submits
main_watchdog(p) ==
    /\ pc[p] = "watchdog"
    /\ \E has_sentinel_ping \in BOOLEAN, ok \in BOOLEAN :
          /\ voted' = [voted EXCEPT ![p] = @ \/ ~has_sentinel_ping]
          /\ IF ok THEN Goto(p, "prune") ELSE Raise(p)
    /\ UNCHANGED <<now, transient, acquired, bypass, gate>>
    /\ UNCHANGED <<wdvars, sbvars, prvars, passvars>>

\* prune_expired_proposals(sucrd)
main_prune(p) ==
    /\ pc[p] = "prune"
    /\ \E casts \in BOOLEAN, ok \in BOOLEAN :
          /\ voted' = [voted EXCEPT ![p] = @ \/ casts]
          /\ IF ok THEN Goto(p, "superblock") ELSE Raise(p)
    /\ UNCHANGED <<now, transient, acquired, bypass, gate>>
    /\ UNCHANGED <<wdvars, sbvars, prvars, passvars>>

\* attempt_superblock_creation(sucrd)
main_superblock(p) ==
    /\ pc[p] = "superblock"
    /\ \E casts \in BOOLEAN, ok \in BOOLEAN :
          /\ voted' = [voted EXCEPT ![p] = @ \/ casts]
          /\ IF ok THEN Goto(p, "resched") ELSE Raise(p)
    /\ UNCHANGED <<now, transient, acquired, bypass, gate>>
    /\ UNCHANGED <<wdvars, sbvars, prvars, passvars>>

\* Scheduler.schedule_next_run(), then main() returns
main_resched(p) ==
    /\ pc[p] = "resched"
    /\ \E i \in RunIntervals : transient' = schedule_next_run(transient, i)
    /\ Return(p, "completed")
    /\ UNCHANGED <<now, voted, acquired, bypass, gate>>
    /\ UNCHANGED <<wdvars, sbvars, prvars, passvars>>

\* entrypoint(): Transient.delete(mutex_key) after main(); the script ends
\* and the interpreter exits with status 0 through the exit hooks
entrypoint_release(p) ==
    /\ pc[p] = "release"
    /\ transient' = TransientDelete(transient, mutex_key)
    /\ pc' = [pc EXCEPT ![p] = "atexit"]
    /\ status' = [status EXCEPT ![p] = 0]
    /\ UNCHANGED <<now, how, voted, acquired, bypass, gate>>
    /\ UNCHANGED <<wdvars, sbvars, prvars, passvars>>

\* atexit: cleanup(mutex_key), registered before the lock is looked at, so
\* it runs at every interpreter exit
cleanup(p) ==
    /\ pc[p] = "atexit"
    /\ transient' = TransientDelete(transient, mutex_key)
    /\ Gone(p)
    /\ UNCHANGED <<now, how, voted, status>>
    /\ UNCHANGED <<wdvars, sbvars, prvars, passvars>>

\* SIGINT, whenever it arrives once the handler is registered:
\* Transient.delete('SENTINEL_RUNNING'), then sys.exit(1), which unwinds to
\* the exit hooks; raised while the exit hook is running (a second SIGINT,
\* or one that follows an exception or the return of main()), it unwinds
\* out of the hook, which is abandoned before its Transient.delete, and the
\* interpreter either keeps the exit status it had or takes the handler's
signal_handler(p) ==
    /\ pc[p] \in SignalPcs
    /\ transient' = TransientDelete(transient, signal_key)
    /\ IF pc[p] = "atexit"
       THEN /\ Gone(p)
            /\ \E s \in {status[p], 1} : status' = [status EXCEPT ![p] = s]
       ELSE /\ pc' = [pc EXCEPT ![p] = "atexit"]
            /\ status' = [status EXCEPT ![p] = 1]
            /\ UNCHANGED <<acquired, bypass, gate>>
    /\ how' = [how EXCEPT ![p] = "sigint"]
    /\ UNCHANGED <<now, voted>>
    /\ UNCHANGED <<wdvars, sbvars, prvars, passvars>>

\* the process is killed outright: neither handler nor exit hook runs
\* ("assume that all processes expire after 'timeout_seconds' seconds");
\* the status is that of a death by SIGKILL
Kill(p) ==
    /\ pc[p] \in LivePcs
    /\ Gone(p)
    /\ how' = [how EXCEPT ![p] = "killed"]
    /\ status' = [status EXCEPT ![p] = 137]
    /\ UNCHANGED <<now, transient, voted>>
    /\ UNCHANGED <<wdvars, sbvars, prvars, passvars>>

\* time passes
Tick ==
    /\ now + TickSeconds <= EndTime
    /\ now' = now + TickSeconds
    /\ UNCHANGED <<lockvars, wdvars, sbvars, prvars, passvars>>

Next ==
    \/ Tick
    \/ \E p \in Procs :
          \/ entrypoint_start(p)
          \/ entrypoint_get(p)
          \/ entrypoint_set(p)
          \/ main_preflight(p)
          \/ main_bypass(p)
          \/ main_sched(p)
          \/ main_clear(p)
          \/ main_sync(p)
          \/ main_watchdog(p)
          \/ main_prune(p)
          \/ main_superblock(p)
          \/ main_resched(p)
          \/ entrypoint_release(p)
          \/ cleanup(p)
          \/ signal_handler(p)
          \/ Kill(p)

Spec == Init /\ [][Next]_vars

(***************************************************************************)
(* SpecWD: watchdog_check() over the Watchdog records of the store.        *)
(***************************************************************************)
\* Watchdog expiry threshold, seconds
expiry_threshold == 60

PastTimes(t) == {k * TickSeconds : k \in 0..(MaxTicks + 1)} \cap 0..t

\* Watchdog.expired(sucrd) / Watchdog.active(sucrd), evaluated at time t
WatchdogExpired(t) == {w \in watchdogs : t - w.created_at > expiry_threshold}
WatchdogActive(t) == watchdogs \ WatchdogExpired(t)

\* sorted(active_wd, key=lambda wd: wd.object_hash)
RECURSIVE sorted(_)
sorted(S) ==
    IF S = {} THEN <<>>
    ELSE LET lo == CHOOSE w \in S :
                     \A x \in S \ {w} : StrLess(w.object_hash, x.object_hash)
         IN <<lo>> \o sorted(S \ {lo})

\* list.pop() and list.pop(0): the element taken, and what is left
pop(l) == [item |-> l[Len(l)], rest |-> SubSeq(l, 1, Len(l) - 1)]
pop0(l) == [item |-> l[1], rest |-> SubSeq(l, 2, Len(l))]

Range(l) == {l[i] : i \in 1..Len(l)}

\* the lowest hash wins
wd_resolve_Lowest(active) ==
    LET p == pop0(sorted(active))
    IN [decisions |-> {Decision(p.item.object_hash, "valid", "yes")} \cup
                      {Decision(w.object_hash, "delete", "yes") :
                          w \in Range(p.rest)},
        submitted |-> <<>>]

\* the winner is read off the list but left in it
wd_resolve_KeepWinner(active) ==
    LET l == sorted(active)
    IN [decisions |-> {Decision(l[Len(l)].object_hash, "valid", "yes")} \cup
                      {Decision(w.object_hash, "delete", "yes") :
                          w \in Range(l)},
        submitted |-> <<>>]

\* watchdog_check(), the else branch: the highest hash wins, the others of
\* the list are voted down
wd_resolve(active) ==
    LET p == pop(sorted(active))
    IN [decisions |-> {Decision(p.item.object_hash, "valid", "yes")} \cup
                      {Decision(w.object_hash, "delete", "yes") :
                          w \in Range(p.rest)},
        submitted |-> <<>>]

\* the new watchdog is taken for the winner at once
wd_seed_VoteValid(t) ==
    [decisions |-> {Decision(<<48>>, "valid", "yes")},
     submitted |-> <<[type |-> "watchdog", created_at |-> t]>>]

\* watchdog_check(), 0 == active_count: a new Watchdog is created and
\* submitted
wd_seed(t) ==
    [decisions |-> {},
     submitted |-> <<[type |-> "watchdog", created_at |-> t]>>]

\* GovernanceObject.sync(sucrd): a Watchdog of the network enters the store
wd_sync ==
    /\ wdpc = "idle"
    /\ Cardinality(watchdogs) < MaxWatchdogs
    /\ \E h \in ObjectHashes, c \in PastTimes(now) :
          /\ \A w \in watchdogs : w.object_hash # h
          /\ watchdogs' = watchdogs \cup {[object_hash |-> h, created_at |-> c]}
    /\ UNCHANGED <<now, lockvars, sbvars, prvars, passvars, wdpc, active_wd>>

\* watchdog_check(), first loop: vote to delete the expired watchdogs
watchdog_check_expired ==
    /\ wdpc = "idle"
    /\ LET ds == {Decision(w.object_hash, "delete", "yes") :
                      w \in WatchdogExpired(now)}
       IN /\ decisions' = ds
          /\ votes' = ApplyVotes(votes, ds)
    /\ submitted' = <<>>
    /\ active_wd' = {}
    /\ wdpc' = "active"
    /\ UNCHANGED <<now, lockvars, sbvars, prvars, watchdogs>>

\* watchdog_check(), from Watchdog.active(sucrd) to the end
watchdog_check_active ==
    /\ wdpc = "active"
    /\ LET active == WatchdogActive(now)
           r == IF Cardinality(active) = 0 THEN wd_seed(now)
                ELSE wd_resolve(active)
       IN /\ active_wd' = active
          /\ decisions' = decisions \cup r.decisions
          /\ votes' = ApplyVotes(votes, r.decisions)
          /\ submitted' = r.submitted
    /\ wdpc' = "idle"
    /\ UNCHANGED <<now, lockvars, sbvars, prvars, watchdogs>>

NextWD ==
    \/ Tick
    \/ wd_sync
    \/ watchdog_check_expired
    \/ watchdog_check_active

SpecWD == Init /\ [][NextWD]_vars

(***************************************************************************)
(* SpecSB: attempt_superblock_creation(), cycle after cycle, over the      *)
(* Superblock records of the store and this voter's votes.                 *)
(***************************************************************************)
\* payment schedules a Superblock can carry; "none": no superblock built
Payments == {"P1", "P2"}
Heights == FirstHeight..(FirstHeight + MaxCycles)

\* sb.hex_hash(): the content hash of a Superblock, over its height and its
\* payment schedule, not over its object_hash
hex_hash(sb) == <<sb.event_block_height, sb.payments>>

\* sucrlib.create_superblock(proposals, event_block_height, budget_max,
\* sb_epoch_time), given the payment schedule the ranked proposals yield
create_superblock(cand, ebh) ==
    [type |-> "superblock", event_block_height |-> ebh, payments |-> cand]

\* Superblock.at_height(ebh)
at_height(sbs, ebh) == {sb \in sbs : sb.event_block_height = ebh}

\* Superblock.is_voted_funding(ebh): this voter has voted funding yes on a
\* Superblock of that height
is_voted_funding(vs, sbs, ebh) ==
    \E sb \in at_height(sbs, ebh) :
        Decision(sb.object_hash, "funding", "yes") \in vs

\* Superblock.find_highest_deterministic(sb_hash): the record of that
\* sb_hash with the highest object_hash, as a set of at most one record
find_highest_deterministic(sbs, h) ==
    {sb \in sbs :
        /\ hex_hash(sb) = h
        /\ \A x \in sbs : hex_hash(x) = h /\ x # sb
              => StrLess(x.object_hash, sb.object_hash)}

\* the highest record of the height, whatever its content
sb_find_AtHeight(sbs, sb) ==
    {r \in at_height(sbs, sb.event_block_height) :
        \A x \in at_height(sbs, sb.event_block_height) :
            x # r => StrLess(x.object_hash, r.object_hash)}

\* dbrec = Superblock.find_highest_deterministic(sb.hex_hash())
sb_find(sbs, sb) == find_highest_deterministic(sbs, hex_hash(sb))

\* the loop without its voted_on test
sb_vote_down_All(vs, sbs, ebh) ==
    {Decision(sb.object_hash, "funding", "no") : sb \in at_height(sbs, ebh)}

\* "vote down any new SBs because we've already chosen a winner"
sb_vote_down(vs, sbs, ebh) ==
    {Decision(sb.object_hash, "funding", "no") :
        sb \in {x \in at_height(sbs, ebh) :
                    ~voted_on(vs, x.object_hash, "funding")}}

\* the duplicates loop with its test the wrong way round
sb_dedup_Inverted(vs, sbs, dbrec, sb) ==
    LET vs1 == vote(vs, dbrec.object_hash, "funding", "yes")
    IN {Decision(dbrec.object_hash, "funding", "yes")} \cup
       {Decision(x.object_hash, "delete", "yes") :
           x \in {y \in sbs : /\ hex_hash(y) = hex_hash(sb)
                              /\ voted_on(vs1, y.object_hash, "funding")}}

\* dbrec.vote(funding, yes), then (delete, yes) on every record of the same
\* sb_hash that has no funding vote by then
sb_dedup(vs, sbs, dbrec, sb) ==
    LET vs1 == vote(vs, dbrec.object_hash, "funding", "yes")
    IN {Decision(dbrec.object_hash, "funding", "yes")} \cup
       {Decision(x.object_hash, "delete", "yes") :
           x \in {y \in sbs : /\ hex_hash(y) = hex_hash(sb)
                              /\ ~voted_on(vs1, y.object_hash, "funding")}}

\* the candidate is submitted whoever the winner is
sb_submit_Always(sb, winner) == <<sb>>

\* if (sucrd.we_are_the_winner()): sb.submit(sucrd)
sb_submit(sb, winner) == IF winner THEN <<sb>> ELSE <<>>

Result(reached, ds, sub) ==
    [reached |-> reached, decisions |-> ds, submitted |-> sub]

\* the maturity check comes before the already-voted check
attempt_MaturityFirst(vs, sbs, ebh, is_masternode, maturity, cand, winner) ==
    IF ~is_masternode THEN Result("not_masternode", {}, <<>>)
    ELSE IF ~maturity THEN Result("immature", {}, <<>>)
    ELSE IF is_voted_funding(vs, sbs, ebh)
    THEN Result("voted", sb_vote_down(vs, sbs, ebh), <<>>)
    ELSE IF cand = "none" THEN Result("no_candidate", {}, <<>>)
    ELSE LET sb == create_superblock(cand, ebh)
             dbrecs == sb_find(sbs, sb)
         IN IF dbrecs # {}
            THEN Result("matched",
                        sb_dedup(vs, sbs, CHOOSE r \in dbrecs : TRUE, sb),
                        <<>>)
            ELSE Result(IF winner THEN "submitted" ELSE "not_winner",
                        {}, sb_submit(sb, winner))

\* the already-voted check is left out
attempt_NoVotedCheck(vs, sbs, ebh, is_masternode, maturity, cand, winner) ==
    IF ~is_masternode THEN Result("not_masternode", {}, <<>>)
    ELSE IF ~maturity THEN Result("immature", {}, <<>>)
    ELSE IF cand = "none" THEN Result("no_candidate", {}, <<>>)
    ELSE LET sb == create_superblock(cand, ebh)
             dbrecs == sb_find(sbs, sb)
         IN IF dbrecs # {}
            THEN Result("matched",
                        sb_dedup(vs, sbs, CHOOSE r \in dbrecs : TRUE, sb),
                        <<>>)
            ELSE Result(IF winner THEN "submitted" ELSE "not_winner",
                        {}, sb_submit(sb, winner))

\* attempt_superblock_creation(sucrd), given what the daemon answers:
\* where it returns, the vote() calls and the submit() calls it makes
attempt(vs, sbs, ebh, is_masternode, maturity, cand, winner) ==
    IF ~is_masternode THEN Result("not_masternode", {}, <<>>)
    ELSE IF is_voted_funding(vs, sbs, ebh)
    THEN Result("voted", sb_vote_down(vs, sbs, ebh), <<>>)
    ELSE IF ~maturity THEN Result("immature", {}, <<>>)
    ELSE IF cand = "none" THEN Result("no_candidate", {}, <<>>)
    ELSE LET sb == create_superblock(cand, ebh)
             dbrecs == sb_find(sbs, sb)
         IN IF dbrecs # {}
            THEN Result("matched",
                        sb_dedup(vs, sbs, CHOOSE r \in dbrecs : TRUE, sb),
                        <<>>)
            ELSE Result(IF winner THEN "submitted" ELSE "not_winner",
                        {}, sb_submit(sb, winner))

\* GovernanceObject.sync(sucrd): a Superblock of the network (this node's
\* own submission included) enters the store
sb_sync ==
    /\ Cardinality(superblocks) < MaxSuperblocks
    /\ \E h \in ObjectHashes, e \in Heights, c \in Payments :
          /\ \A sb \in superblocks : sb.object_hash # h
          /\ superblocks' = superblocks \cup
                {[object_hash |-> h, event_block_height |-> e, payments |-> c]}
    /\ decisions' = {}
    /\ submitted' = <<>>
    /\ run' = NoRun
    /\ UNCHANGED <<now, lockvars, wdvars, prvars, votes, height>>

\* the chain passes a superblock: next_superblock_height() moves on
next_superblock_height ==
    /\ height < FirstHeight + MaxCycles
    /\ height' = height + 1
    /\ decisions' = {}
    /\ submitted' = <<>>
    /\ run' = NoRun
    /\ UNCHANGED <<now, lockvars, wdvars, prvars, votes, superblocks>>

\* what the daemon and the candidate construction answer in one pass; an
\* answer the code never asks for after a negative one is left negative
DaemonAnswers ==
    {a \in [is_masternode : BOOLEAN, maturity : BOOLEAN,
            cand : Payments \cup {"none"}, winner : BOOLEAN] :
        /\ ~a.is_masternode => ~a.maturity
        /\ ~a.maturity => a.cand = "none"
        /\ a.cand = "none" => ~a.winner}

\* one pass of attempt_superblock_creation(sucrd)
attempt_superblock_creation ==
    /\ \E a \in DaemonAnswers :
          LET r == attempt(votes, superblocks, height, a.is_masternode,
                           a.maturity, a.cand, a.winner)
          IN /\ decisions' = r.decisions
             /\ votes' = ApplyVotes(votes, r.decisions)
             /\ submitted' = r.submitted
             /\ run' = [reached |-> r.reached,
                        is_masternode |-> a.is_masternode,
                        maturity |-> a.maturity, cand |-> a.cand,
                        winner |-> a.winner]
    /\ UNCHANGED <<now, lockvars, wdvars, prvars, superblocks, height>>

NextSB ==
    \/ sb_sync
    \/ next_superblock_height
    \/ attempt_superblock_creation

SpecSB == Init /\ [][NextSB]_vars

(***************************************************************************)
(* SpecPR: prune_expired_proposals() over the Proposal records of the      *)
(* store (Proposal.expired is in lib/models.py, which is not part of the   *)
(* sources; modelled from the Proposal entry of the data model and the     *)
(* pruning property).                                                      *)
(***************************************************************************)
\* what superblockcycle() can return
SuperblockCycles == {TickSeconds, 2 * TickSeconds}

\* the end_epoch values a Proposal can carry
EndEpochs == {k * TickSeconds : k \in 0..(MaxTicks + 1)}

\* Proposal.expired(superblockcycle), evaluated at time t
ProposalExpired(t, superblockcycle) ==
    {pr \in proposals : pr.end_epoch < t - superblockcycle}

\* every Proposal of the store is voted down
prune_All(t, superblockcycle) ==
    {Decision(pr.object_hash, "delete", "yes") : pr \in proposals}

\* for proposal in Proposal.expired(sucrd.superblockcycle()):
\*     proposal.vote(sucrd, VoteSignals.delete, VoteOutcomes.yes)
prune(t, superblockcycle) ==
    {Decision(pr.object_hash, "delete", "yes") :
        pr \in ProposalExpired(t, superblockcycle)}

\* GovernanceObject.sync(sucrd): a Proposal of the network enters the store
pr_sync ==
    /\ Cardinality(proposals) < MaxProposals
    /\ \E h \in ObjectHashes, e \in EndEpochs :
          /\ \A pr \in proposals : pr.object_hash # h
          /\ proposals' = proposals \cup {[object_hash |-> h, end_epoch |-> e]}
    /\ decisions' = {}
    /\ cyclelen' = 0
    /\ UNCHANGED <<now, lockvars, wdvars, sbvars, votes, submitted>>

\* one pass of prune_expired_proposals(sucrd)
prune_expired_proposals ==
    /\ \E c \in SuperblockCycles :
          /\ cyclelen' = c
          /\ decisions' = prune(now, c)
          /\ votes' = ApplyVotes(votes, prune(now, c))
    /\ UNCHANGED <<now, lockvars, wdvars, sbvars, proposals, submitted>>

\* time passes; what the last pass decided is no longer the current pass
pr_tick ==
    /\ now + TickSeconds <= EndTime
    /\ now' = now + TickSeconds
    /\ decisions' = {}
    /\ cyclelen' = 0
    /\ UNCHANGED <<lockvars, wdvars, sbvars, proposals, votes, submitted>>

NextPR ==
    \/ pr_tick
    \/ pr_sync
    \/ prune_expired_proposals

SpecPR == Init /\ [][NextPR]_vars

(***************************************************************************)
(* SpecPass: the two resolvers of competing objects, each over its own     *)
(* part of the store: watchdog_check() reads Watchdog records only,        *)
(* attempt_superblock_creation() Superblock records only, so a behaviour   *)
(* fills the store with records of one of the two types.                   *)
(***************************************************************************)
NextPass ==
    \/ superblocks = {} /\ run = NoRun /\ NextWD
    \/ watchdogs = {} /\ wdpc = "idle" /\ now = StartTime /\ NextSB

SpecPass == Init /\ [][NextPass]_vars

(***************************************************************************)
(* Properties of the run-lock (checked under Spec).                        *)
(***************************************************************************)
LockEntry == transient[mutex_key]
LockPresent == mutex_key \in DOMAIN transient

\* C1: at no time are two invocations both past the lock gate and inside
\* main().
C1_MutualExclusion ==
    Cardinality({p \in Procs : pc[p] \in MainPcs}) <= 1

\* C2: an invocation that found the lock held and aborted leaves the lock
\* entry as it is, up to and including its exit hook.
C2_AbortLeavesLock ==
    [][\A p \in Procs :
          how[p] = "abort" /\ pc[p] = "atexit" /\ pc'[p] = "done"
              /\ how'[p] = "abort"
          => transient' = transient]_vars

\* C3: the gate lets an invocation through when there is no lock entry or
\* its TTL has elapsed, and the invocation then creates an entry that lives
\* timeout_seconds (90 s); the gate makes the invocation abort, leaving the
\* entry alone, when there is an entry whose TTL has not elapsed.
C3_AcquireSemantics ==
    [][\A p \in Procs :
          /\ pc[p] = "get" /\ pc'[p] # "get"
                 /\ how'[p] \notin {"sigint", "killed"}
             => /\ LockPresent /\ now < LockEntry.expires_at
                   => /\ pc'[p] = "atexit" /\ how'[p] = "abort"
                      /\ transient' = transient
                /\ ~LockPresent \/ now > LockEntry.expires_at
                   => pc'[p] = "set"
          /\ pc[p] = "set" /\ pc'[p] = "preflight"
             => transient'[mutex_key] =
                    [value |-> now, expires_at |-> now + 90]]_vars

\* C3 witness: an entry exists (a first attempt succeeded), a second
\* invocation has aborted on it, and after the TTL an invocation has passed
\* the gate although the entry was never released.
C3_Witness ==
    \E p, q \in Procs :
        /\ p # q
        /\ pc[q] = "atexit" /\ how[q] = "abort"
        /\ pc[p] = "set"
        /\ LockPresent /\ now > LockEntry.expires_at

\* C4: when an invocation that acquired the lock ends without being killed
\* outright (main() ran to the end, returned early, or SIGINT arrived at
\* any point), the entry under its mutex key is absent right after; and
\* once SIGINT has arrived the invocation performs no vote and no
\* submission.
C4_LockReleased ==
    [][\A p \in Procs :
          /\ acquired[p] /\ pc[p] # "done" /\ pc'[p] = "done"
                 /\ how'[p] # "killed"
             => mutex_key \notin DOMAIN transient'
          /\ how'[p] = "sigint" => voted'[p] = voted[p]]_vars

(***************************************************************************)
(* Properties of watchdog_check() (checked under SpecWD).                  *)
(***************************************************************************)
ValidYes == {d \in decisions : d[2] = "valid" /\ d[3] = "yes"}

\* C5: after a pass that found active watchdogs, exactly one watchdog has
\* received (valid, yes), it is the active one whose hash denotes the
\* greatest number, every other active one has received (delete, yes) and
\* not (valid, yes), and nothing was submitted.
C5_WatchdogConsensus ==
    wdpc = "idle" /\ active_wd # {} =>
        /\ Cardinality(ValidYes) = 1
        /\ \A d \in decisions : d[2] = "valid" => d[3] = "yes"
        /\ \A d \in ValidYes :
              /\ \E w \in active_wd : w.object_hash = d[1]
              /\ \A x \in active_wd : HashValue(x.object_hash) <= HashValue(d[1])
              /\ Decision(d[1], "delete", "yes") \notin decisions
        /\ \A w \in active_wd :
              Decision(w.object_hash, "valid", "yes") \notin decisions
              => Decision(w.object_hash, "delete", "yes") \in decisions
        /\ submitted = <<>>

\* C5 witness: the watchdogs aa, bb and 11 were all active; bb won.
C5_Witness ==
    /\ wdpc = "idle"
    /\ {w.object_hash : w \in active_wd} = {<<97, 97>>, <<98, 98>>, <<49, 49>>}
    /\ Decision(<<98, 98>>, "valid", "yes") \in decisions
    /\ Decision(<<97, 97>>, "delete", "yes") \in decisions
    /\ Decision(<<49, 49>>, "delete", "yes") \in decisions

\* C6: a pass that finds no active watchdog creates and submits exactly one
\* Watchdog, with created_at = now; every vote of the pass is (delete, yes)
\* on an expired watchdog of the store.
C6_WatchdogSeeding ==
    [][wdpc = "active" /\ wdpc' = "idle" /\ active_wd' = {} =>
          /\ submitted' = <<[type |-> "watchdog", created_at |-> now]>>
          /\ \A d \in decisions' :
                /\ d[2] = "delete" /\ d[3] = "yes"
                /\ \E w \in watchdogs :
                      /\ w.object_hash = d[1]
                      /\ now - w.created_at > expiry_threshold]_vars

\* C6 witness: a pass voted two expired watchdogs down and seeded a new one.
C6_Witness ==
    /\ wdpc = "idle" /\ active_wd = {}
    /\ Len(submitted) = 1
    /\ Cardinality(decisions) = 2

(***************************************************************************)
(* Properties of attempt_superblock_creation() (checked under SpecSB).     *)
(* A step with run' # NoRun is a pass; the unprimed variables are the      *)
(* store and the votes the pass found.                                     *)
(***************************************************************************)
Pass == run' # NoRun
FundingYes(vs) == {d \in vs : d[2] = "funding" /\ d[3] = "yes"}

\* the pass builds a candidate: it is run on a masternode, finds no funding
\* yes at the next superblock height, in the maturity phase, and the
\* construction yields a superblock
Built ==
    /\ run'.is_masternode
    /\ ~is_voted_funding(votes, superblocks, height)
    /\ run'.maturity
    /\ run'.cand # "none"

\* the sb_hash of the candidate of the pass, and the records that have it
CandHash == <<height, run'.cand>>
Matches == {sb \in superblocks : hex_hash(sb) = CandHash}

\* C7: when the candidate a pass builds has the sb_hash of stored records,
\* then after the pass exactly one record of that sb_hash holds this
\* voter's funding yes, every other record of that sb_hash that had no
\* funding vote has received (delete, yes), and nothing was submitted.
C7_SuperblockDedup ==
    [][Pass /\ Built /\ Matches # {} =>
          /\ Cardinality({sb \in Matches :
                Decision(sb.object_hash, "funding", "yes") \in votes'}) = 1
          /\ \A sb \in Matches :
                /\ ~voted_on(votes, sb.object_hash, "funding")
                /\ Decision(sb.object_hash, "funding", "yes") \notin votes'
                => Decision(sb.object_hash, "delete", "yes") \in decisions'
          /\ submitted' = <<>>]_vars

\* C7 witness: two records of height 100 carry the schedule the candidate
\* has; the pass voted funding yes on one and delete yes on the other.
C7_Witness ==
    /\ run.reached = "matched"
    /\ \E a, b \in superblocks :
          /\ a # b /\ hex_hash(a) = hex_hash(b)
          /\ a.event_block_height = FirstHeight
          /\ decisions = {Decision(a.object_hash, "funding", "yes"),
                          Decision(b.object_hash, "delete", "yes")}

\* the records of the next superblock height without a funding vote
Unvoted ==
    {sb \in at_height(superblocks, height) :
        ~voted_on(votes, sb.object_hash, "funding")}
VoteDown == {Decision(sb.object_hash, "funding", "no") : sb \in Unvoted}

\* C8 as stated: once a funding yes is held at the next superblock height,
\* every pass submits nothing and emits exactly (funding, no) for each
\* record of that height without a funding vote.
C8_Finalized_AsStated ==
    [][Pass /\ is_voted_funding(votes, superblocks, height) =>
          /\ submitted' = <<>>
          /\ decisions' = VoteDown]_vars

\* C8, amended: once a funding yes is held at the next superblock height,
\* every pass submits nothing and casts no funding yes and no delete vote;
\* a pass run on a masternode emits exactly (funding, no) for each record
\* of that height without a funding vote, after which every record of the
\* height has a funding vote (a further pass over an unchanged store emits
\* nothing); a pass run on a node that is no masternode emits nothing.
C8_Finalized ==
    [][Pass /\ is_voted_funding(votes, superblocks, height) =>
          /\ submitted' = <<>>
          /\ decisions' = IF run'.is_masternode THEN VoteDown ELSE {}
          /\ run'.is_masternode =>
                /\ \A sb \in at_height(superblocks', height') :
                      voted_on(votes', sb.object_hash, "funding")
                /\ FundingYes(votes') = FundingYes(votes)]_vars

\* C8 witness: a pass that found the decision taken has voted funding no
\* on a record that came later.
C8_Witness ==
    /\ run.reached = "voted"
    /\ \E d \in decisions : d[2] = "funding" /\ d[3] = "no"

\* C9: a record receives (funding, yes) in a pass only if the pass built a
\* candidate and the record's sb_hash is the candidate's; a pass whose
\* candidate construction yields none votes no funding and submits nothing.
C9_FundingEligibility ==
    [][Pass =>
          /\ \A d \in decisions' :
                d[2] = "funding" /\ d[3] = "yes"
                => /\ Built
                   /\ \E sb \in Matches : sb.object_hash = d[1]
          /\ run'.is_masternode /\ run'.maturity /\ run'.cand = "none"
                /\ ~is_voted_funding(votes, superblocks, height)
             => /\ \A d \in decisions' : d[2] # "funding"
                /\ submitted' = <<>>]_vars

\* C9 witness: the store holds a record of the next superblock height with
\* another schedule than the candidate's; the matching record alone has
\* received funding yes.
C9_Witness ==
    /\ run.reached = "matched"
    /\ \E a, b \in at_height(superblocks, height) :
          /\ a.payments = run.cand /\ b.payments # run.cand
          /\ StrLess(a.object_hash, b.object_hash)
          /\ Decision(a.object_hash, "funding", "yes") \in decisions
          /\ ~voted_on(votes, b.object_hash, "funding")

\* C10: a pass submits only the candidate, and only on a masternode, with
\* no funding yes at the next superblock height, in the maturity phase,
\* with a candidate built, no stored record of the candidate's sb_hash and
\* we_are_the_winner() true; the pass that submits casts no vote.
C10_CandidateSubmission ==
    [][Pass /\ submitted' # <<>> =>
          /\ Built
          /\ Matches = {}
          /\ run'.winner
          /\ submitted' = <<create_superblock(run'.cand, height)>>
          /\ decisions' = {}
          /\ votes' = votes]_vars

\* C10 witness: a pass submitted its candidate while the store held a
\* record of the same height with another schedule, and cast no vote.
C10_Witness ==
    /\ run.reached = "submitted"
    /\ Len(submitted) = 1
    /\ decisions = {}
    /\ at_height(superblocks, height) # {}

(***************************************************************************)
(* Properties of prune_expired_proposals() (checked under SpecPR).         *)
(***************************************************************************)
\* C11: after a pass of prune_expired_proposals, every Proposal whose
\* end_epoch is before now - superblockcycle() has received (delete, yes),
\* no Proposal with end_epoch at or after now - superblockcycle() has
\* received a decision, and every decision is a (delete, yes).
C11_ProposalPruning ==
    cyclelen # 0 =>
        /\ \A pr \in proposals :
              /\ pr.end_epoch < now - cyclelen
                 => Decision(pr.object_hash, "delete", "yes") \in decisions
              /\ pr.end_epoch >= now - cyclelen
                 => \A d \in decisions : d[1] # pr.object_hash
        /\ \A d \in decisions : d[2] = "delete" /\ d[3] = "yes"

\* C11 witness: a pass has voted down a Proposal that ended before
\* now - superblockcycle(), and left alone one that ended exactly at
\* now - superblockcycle() and one that has not ended.
C11_Witness ==
    /\ cyclelen # 0
    /\ \E a, b, c \in proposals :
          /\ a.end_epoch < now - cyclelen
          /\ b.end_epoch = now - cyclelen
          /\ c.end_epoch > now
          /\ decisions = {Decision(a.object_hash, "delete", "yes")}

(***************************************************************************)
(* Properties of the cycle of main() (checked under Spec).  A step in      *)
(* which pc[p] changes is a step of invocation p.                          *)
(***************************************************************************)
LockHeld(p) == acquired[p] /\ Truthy(TransientGet(transient, mutex_key))
VotePcs == {"watchdog", "prune", "superblock"}
Marker == scheduler_key \in DOMAIN transient

\* C12: an invocation votes or submits only while it holds the run-lock
\* (it has set the entry, and the entry is there and unexpired), past the
\* scheduler gate and the object sync of its run; it reschedules after its
\* last vote or submission and while it still holds the lock.
C12_CycleOrdering ==
    [][\A p \in Procs :
          /\ ~voted[p] /\ voted'[p] => LockHeld(p) /\ pc[p] \in VotePcs
          /\ pc[p] = "resched" /\ pc'[p] = "release" => LockHeld(p)
          /\ pc[p] \in {"resched", "release", "atexit"}
             => voted'[p] = voted[p]]_vars

\* C13 as stated: the marker is absent after the clear that precedes the
\* object sync, and absent again after the step that ends the cycle.
C13_MarkerClearing_AsStated ==
    [][\A p \in Procs :
          /\ pc[p] = "clear" /\ pc'[p] = "sync" => ~Marker'
          /\ pc[p] = "resched" /\ pc'[p] = "release" => ~Marker']_vars

\* C13, amended: the marker is absent after the clear that precedes the
\* object sync; from there to the end of the cycle the invocation does not
\* touch the marker, however it leaves the cycle (so one that crashes has
\* written none); the step that ends a completed cycle does not clear the
\* marker but sets it to a time in the future, which makes is_run_time()
\* false.
C13_MarkerClearing ==
    [][\A p \in Procs :
          /\ pc[p] = "clear" /\ pc'[p] = "sync" => ~Marker'
          /\ pc[p] \in {"sync"} \cup VotePcs /\ pc'[p] # pc[p]
             => /\ Marker' = Marker
                /\ Marker => transient'[scheduler_key] = transient[scheduler_key]
          /\ pc[p] = "resched" /\ pc'[p] = "release"
             => /\ Marker'
                /\ transient'[scheduler_key].value > now
                /\ ~is_run_time(transient')]_vars

\* C13 witness: after a run has completed (and set the marker), another
\* has cleared the marker, voted and crashed; there is no marker.
C13_Witness ==
    \E p, q \in Procs :
        /\ pc[q] = "done" /\ how[q] = "completed"
        /\ pc[p] = "atexit" /\ how[p] = "error" /\ voted[p]
        /\ ~Marker

\* C14: an invocation with the bypass flag is not stopped by the window
\* check; one that finds an unexpired lock entry aborts, whatever its
\* flags, without syncing or voting.
C14_ForcedRun ==
    [][\A p \in Procs :
          /\ pc[p] = "sched" /\ bypass[p] /\ pc'[p] # "sched"
                 /\ how'[p] \notin {"sigint", "killed"}
             => pc'[p] = "clear"
          /\ pc[p] = "get" /\ Truthy(TransientGet(transient, mutex_key))
                 /\ pc'[p] # "get" /\ how'[p] \notin {"sigint", "killed"}
             => pc'[p] = "atexit" /\ how'[p] = "abort" /\ ~voted'[p]]_vars

\* C15: when the daemon is unreachable, not synced or no masternode, and
\* when is_run_time() is false for an invocation without the bypass flag,
\* main() returns, having voted and submitted nothing, and the step leaves
\* the store, the votes and the scheduler marker as they were; up to there
\* an invocation without the bypass flag has not touched the marker.
C15_PreflightAborts ==
    [][\A p \in Procs :
          /\ \/ pc[p] = "preflight" /\ gate'[p] \in PreflightGates
             \/ pc[p] = "sched" /\ ~bypass[p] /\ gate'[p] = "not_run_time"
             => /\ pc'[p] = "release" /\ how'[p] = "skipped"
                /\ ~voted'[p]
                /\ UNCHANGED <<transient, watchdogs, superblocks, proposals,
                               votes, decisions, submitted>>
          /\ pc[p] = "bypass" /\ ~bypass[p] /\ pc'[p] = "sched"
             => transient' = transient]_vars

\* C16: a failure (an exception out of the object sync or of any other
\* call of the cycle) takes the invocation straight to the exit hooks;
\* a failing object sync casts nothing; after the failure nothing is cast
\* and the cycle is not entered again; and when the exit hook has run the
\* lock entry is absent.
C16_SyncFailureFatal ==
    [][\A p \in Procs :
          /\ how[p] # "error" /\ how'[p] = "error"
             => /\ pc'[p] = "atexit"
                /\ pc[p] = "sync" => ~voted'[p]
          /\ how[p] = "error" /\ pc[p] # "done"
             => pc'[p] \in {"atexit", "done"} /\ voted'[p] = voted[p]
          /\ how[p] = "error" /\ pc[p] = "atexit" /\ pc'[p] = "done"
                 /\ how'[p] = "error"
             => mutex_key \notin DOMAIN transient']_vars

\* C16 witness: an invocation that had voted met a failure later in the
\* cycle and has exited with status 1; there is no lock entry.
C16_Witness ==
    \E p \in Procs :
        /\ pc[p] = "done" /\ how[p] = "error" /\ voted[p]
        /\ status[p] = 1
        /\ mutex_key \notin DOMAIN transient

\* C17: a process whose exit hook has run exits with status 0 when its
\* cycle completed or one of the checks of main() was answered in the
\* negative (and no SIGINT arrived), and with a status other than 0 when
\* SIGINT arrived or it found the lock held.
C17_ExitStatus ==
    [][\A p \in Procs :
          pc[p] = "atexit" /\ pc'[p] = "done" /\ how'[p] = how[p]
          => /\ (how[p] = "completed" \/ gate[p] \in SkipGates)
                    /\ how[p] # "sigint"
                => status'[p] = 0
             /\ how[p] \in {"sigint", "abort"} => status'[p] # 0]_vars

(***************************************************************************)
(* Further properties of attempt_superblock_creation() (checked under      *)
(* SpecSB).                                                                *)
(***************************************************************************)
Emits == decisions' # {} \/ submitted' # <<>>

\* C18: a pass run on a node that is no masternode emits no vote and no
\* submission; a pass run on a masternode that holds no funding yes at the
\* next superblock height and is not in the maturity phase emits nothing
\* either; a pass run on a masternode that holds a funding yes at that
\* height emits (funding, no) for each record of the height without a
\* funding vote, in the maturity phase or not.
C18_GuardOrder ==
    [][Pass =>
          /\ ~run'.is_masternode => ~Emits
          /\ run'.is_masternode /\ ~run'.maturity
                /\ ~is_voted_funding(votes, superblocks, height)
             => ~Emits
          /\ run'.is_masternode
                /\ is_voted_funding(votes, superblocks, height)
             => decisions' = VoteDown /\ submitted' = <<>>]_vars

\* C18 witness: outside the maturity phase, a pass has voted funding no on
\* a record that arrived after the funding yes of its height.
C18_Witness ==
    /\ run.reached = "voted" /\ ~run.maturity
    /\ \E a, b \in at_height(superblocks, height) :
          /\ Decision(a.object_hash, "funding", "yes") \in votes
          /\ decisions = {Decision(b.object_hash, "funding", "no")}

\* the records of height h on which this voter holds a funding vote out
Funded(vs, h, out) ==
    {sb \in at_height(superblocks, h) :
        Decision(sb.object_hash, "funding", out) \in vs}

\* C19: at every height this voter holds funding yes on at most one record
\* at any time, and once it holds a funding no on a record of the next
\* superblock height no pass casts a funding yes.
C19_SingleFundingWinner ==
    [][/\ \A h \in Heights : Cardinality(Funded(votes, h, "yes")') <= 1
       /\ Pass /\ Funded(votes, height, "no") # {}
          => \A d \in decisions' : ~(d[2] = "funding" /\ d[3] = "yes")]_vars

\* C19 witness: funding yes is held on one record of the height; the
\* store has since received a record with another schedule, the candidate
\* has changed to that schedule, and the pass has voted funding no on it.
C19_Witness ==
    /\ run.reached = "voted" /\ run.maturity
    /\ \E a, b \in at_height(superblocks, height) :
          /\ Funded(votes, height, "yes") = {a}
          /\ b.payments = run.cand /\ a.payments # run.cand
          /\ Decision(b.object_hash, "funding", "no") \in decisions

(***************************************************************************)
(* Properties of the decisions of one pass (checked under SpecPass).       *)
(***************************************************************************)
\* C20: the decisions of a pass never hold two different decisions on one
\* object: no watchdog has both (valid, yes) and (delete, yes), and the
\* record that received (funding, yes) has no (delete, yes).
C20_NoContradiction ==
    \A d, e \in decisions : d[1] = e[1] => d = e

\* C20 witness: a pass of watchdog_check() has voted an expired watchdog
\* down, the winner valid and the loser down.
C20_Witness ==
    /\ wdpc = "idle" /\ Cardinality(active_wd) = 2
    /\ Cardinality(ValidYes) = 1
    /\ Cardinality(decisions) = 3
    /\ \E w \in watchdogs \ active_wd :
          Decision(w.object_hash, "delete", "yes") \in decisions

====
